---- MODULE Spec2Model ----
(***************************************************************************)
(* Model of sync-git's pack reader: the v2 index lookup (searchGitIndex),  *)
(* the delta applier (applyOffsetDelta), the incremental Inflater, the     *)
(* recursive pack object reader (readFromPack) and the directory scan      *)
(* (getCommitFromPackFile).                                                *)
(*                                                                         *)
(* Files are sequences of bytes (0..255).  A call that returns is a record *)
(* with kind "ok" (or "null"); a call that raises is a record with kind    *)
(* "throw"; a call whose loop state repeats exactly, so that it never      *)
(* returns, is a record with kind "diverge".                               *)
(***************************************************************************)
EXTENDS Integers, Sequences, FiniteSets

VARIABLES
    mode,       \* which part of the program this behaviour exercises
    pc,         \* position of the running call
    idxFile,    \* SpecIndex: bytes of the .idx file
    idxEntries, \* SpecIndex: the <<hash, offset>> pairs the file was built from
    oid,        \* SpecIndex: the 20-byte hash looked up
    found,      \* SpecIndex: what searchGitIndex returned
    dSource,    \* SpecDelta: the base buffer
    dInstrs,    \* SpecDelta: the instructions the delta was encoded from
    dTarget,    \* SpecDelta: the target size the delta declares
    dDelta,     \* SpecDelta: the bytes of the delta
    dOut,       \* SpecDelta: what applyOffsetDelta did
    pObjs,      \* SpecPack: the objects the pack was written from
    pPack,      \* SpecPack: bytes of the .pack file
    pIdx,       \* SpecPack: bytes of its .idx file
    pRes,       \* SpecPack: what readFromPack returned at each object's offset
    rFile,      \* SpecInflater: bytes of the file the readers read
    rStreams,   \* SpecInflater: the zlib streams of the file, [offset, data, end]
    zlib,       \* SpecInflater: Inflater.zlib, [open, z]: set or null, and its stream
    closes,     \* SpecInflater: how often the native zlib.close() has run
    log,        \* SpecInflater: the calls made on the Inflater and what each did
    sDir,       \* SpecScan: the entries of objects/pack, as dir.readSync() yields them
    sPos,       \* SpecScan: how many of them have been read
    sOid,       \* SpecScan: the oid argument, its hex digits
    sOffset,    \* SpecScan: the offset searchGitIndex found
    fds,        \* SpecScan: how often each resource has been opened and closed
    caught,     \* SpecScan: the error the catch clause caught, "" when none
    sOut,       \* SpecScan: what getCommitFromPackFile returned
    loose,      \* SpecTimestamp: the loose object file of the hash, [exists, bytes]
    commit,     \* SpecTimestamp: what getCommitFromLoose returned
    tsOut,      \* SpecTimestamp: what getCommitTimestamp did
    repo,       \* SpecHead: what HEAD, the ref files and packed-refs were written from
    gitFs,      \* SpecHead: the files HEAD, the ref files and packed-refs
    hOut        \* SpecHead: what getLastCommitHash did

indexVars == <<idxFile, idxEntries, oid, found>>

deltaVars == <<dSource, dInstrs, dTarget, dDelta, dOut>>

packVars == <<pObjs, pPack, pIdx, pRes>>

inflaterVars == <<rFile, rStreams, zlib, closes, log>>

scanVars == <<sDir, sPos, sOid, sOffset, fds, caught, sOut>>

tsVars == <<loose, commit, tsOut>>

headVars == <<repo, gitFs, hOut>>

vars == <<mode, pc, indexVars, deltaVars, packVars, inflaterVars, scanVars, tsVars,
          headVars>>

\* the variables of the parts a behaviour does not exercise stay at these values
NoIndex ==
    /\ idxFile = <<>>
    /\ idxEntries = {}
    /\ oid = <<>>
    /\ found = [kind |-> "none"]

NoDelta ==
    /\ dSource = <<>>
    /\ dInstrs = <<>>
    /\ dTarget = 0
    /\ dDelta = <<>>
    /\ dOut = [kind |-> "none"]

NoPack ==
    /\ pObjs = <<>>
    /\ pPack = <<>>
    /\ pIdx = <<>>
    /\ pRes = <<>>

NoInflater ==
    /\ rFile = <<>>
    /\ rStreams = <<>>
    /\ zlib = [open |-> FALSE, z |-> <<>>]
    /\ closes = 0
    /\ log = <<>>

NoScan ==
    /\ sDir = <<>>
    /\ sPos = 0
    /\ sOid = <<>>
    /\ sOffset = 0
    /\ fds = <<>>
    /\ caught = ""
    /\ sOut = [kind |-> "none"]

NoTimestamp ==
    /\ loose = [exists |-> FALSE, bytes |-> <<>>]
    /\ commit = [kind |-> "none"]
    /\ tsOut = [kind |-> "none"]

NoHead ==
    /\ repo = <<>>
    /\ gitFs = <<>>
    /\ hOut = [kind |-> "none"]

(***************************************************************************)
(* Bytes and buffers                                                       *)
(***************************************************************************)
Min(a, b) == IF a < b THEN a ELSE b

Max(a, b) == IF a > b THEN a ELSE b

\* n zero bytes
Zeros(n) == [i \in 1..n |-> 0]

\* Buffer.subarray(start, end) for 0 <= start: both ends are clamped to the buffer
Subarray(buf, start, end) ==
    LET s == Min(start, Len(buf))
        e == Min(Max(end, s), Len(buf))
    IN  SubSeq(buf, s + 1, e)

\* four bytes, big-endian, of v
UInt32BE(v) ==
    << (v \div 16777216) % 256, (v \div 65536) % 256, (v \div 256) % 256, v % 256 >>

\* Buffer.readUInt32BE(0) of a buffer of at least four bytes
BufReadUInt32BE(buf) == buf[1] * 16777216 + buf[2] * 65536 + buf[3] * 256 + buf[4]

(***************************************************************************)
(* Reader (reader.ts): positional reads of a file                          *)
(***************************************************************************)
\* readSync(fd, buffer, 0, bytes, offset): the bytes of the file from offset,
\* fewer than asked at the end of the file
ReadSync(file, offset, bytes) == Subarray(file, offset, offset + bytes)

\* Reader.read(bytes): the bytes read and the offset after them
ReaderRead(file, offset, bytes) ==
    LET buf == ReadSync(file, offset, bytes)
    IN  [buf |-> buf, offset |-> offset + Len(buf)]

\* Reader.peek(bytes): the bytes read; the offset stays
ReaderPeek(file, offset, bytes) == ReadSync(file, offset, bytes)

\* Reader.readUInt32BE(rel): seek(rel), read(4), Buffer.readUInt32BE(0), which
\* raises a RangeError on a buffer shorter than four bytes
ReaderReadUInt32BE(file, offset, rel) ==
    LET r == ReaderRead(file, offset + rel, 4)
    IN  IF Len(r.buf) < 4
        THEN [kind |-> "throw", err |-> "RangeError", offset |-> r.offset]
        ELSE [kind |-> "ok", value |-> BufReadUInt32BE(r.buf), offset |-> r.offset]

\* Reader.readUInt8(rel): seek(rel), read(1), Buffer.readUInt8(0)
ReaderReadUInt8(file, offset, rel) ==
    LET r == ReaderRead(file, offset + rel, 1)
    IN  IF Len(r.buf) < 1
        THEN [kind |-> "throw", err |-> "RangeError", offset |-> r.offset]
        ELSE [kind |-> "ok", value |-> r.buf[1], offset |-> r.offset]

(***************************************************************************)
(* The v2 index file                                                       *)
(***************************************************************************)
\* the signature of a v2 index: 0xff "tOc" 0 0 0 2
idxV2 == <<255, 116, 79, 99, 0, 0, 0, 2>>

\* a 20-byte hash with the given first and last byte
MkHash(first, last) == <<first>> \o Zeros(18) \o <<last>>

\* a is before b, byte by byte (the order of the hash table)
RECURSIVE HashLess(_, _)
HashLess(a, b) ==
    IF a = <<>> \/ b = <<>> THEN a = <<>> /\ b # <<>>
    ELSE IF a[1] # b[1] THEN a[1] < b[1]
    ELSE HashLess(Tail(a), Tail(b))

\* the entries (a set of <<hash, offset>> with distinct hashes) in hash order
RECURSIVE SortEntries(_)
SortEntries(es) ==
    IF es = {} THEN <<>>
    ELSE LET lo == CHOOSE e \in es : \A f \in es : f = e \/ HashLess(e[1], f[1])
         IN  <<lo>> \o SortEntries(es \ {lo})

\* the concatenation of ss[1], ..., ss[n], each of w bytes
Flatten(ss, w) ==
    [k \in 1..(Len(ss) * w) |-> ss[((k - 1) \div w) + 1][((k - 1) % w) + 1]]

\* the bytes of the index file of the sorted entries: signature, 256 cumulative
\* fan-out counts, the hashes, one CRC each, the offsets
IdxFileOf(sorted) ==
    LET n == Len(sorted)
        count(b) == Cardinality({i \in 1..n : sorted[i][1][1] <= b})
    IN  idxV2
        \o Flatten([b \in 1..256 |-> UInt32BE(count(b - 1))], 4)
        \o Flatten([i \in 1..n |-> sorted[i][1]], 20)
        \o Flatten([i \in 1..n |-> UInt32BE(287454020 + i)], 4)
        \o Flatten([i \in 1..n |-> UInt32BE(sorted[i][2])], 4)

\* the loop of getOidFromIdx from iteration i: the reader is at hash start + i
RECURSIVE ScanBucket(_, _, _, _, _, _, _)
ScanBucket(file, hash, offset, i, length, start, hashTableLength) ==
    IF i >= length THEN [kind |-> "undefined"]
    ELSE LET r == ReaderRead(file, offset, 20)
         IN  IF r.buf # hash
             THEN ScanBucket(file, hash, r.offset, i + 1, length, start, hashTableLength)
             ELSE LET o1 == r.offset + 20 * (hashTableLength - i - start - 1)
                      o2 == o1 + 4 * hashTableLength
                  IN  ReaderReadUInt32BE(file, o2, 4 * (i + start))

\* getOidFromIdx(oid, reader), the reader just past the signature at offset
getOidFromIdx(file, hash, offset) ==
    LET first == hash[1]
        s == IF first = 0
             THEN [kind |-> "ok", value |-> 0, offset |-> offset]
             ELSE ReaderReadUInt32BE(file, offset, 4 * (first - 1))
    IN  IF s.kind = "throw" THEN s
        ELSE LET e == ReaderReadUInt32BE(file, s.offset, 0)
             IN  IF e.kind = "throw" THEN e
                 ELSE LET length == e.value - s.value
                          t == ReaderReadUInt32BE(file, e.offset + 4 * (255 - first - 1), 0)
                      IN  IF t.kind = "throw" THEN t
                          ELSE ScanBucket(file, hash, t.offset + 20 * s.value, 0,
                                          length, s.value, t.value)

\* searchGitIndex(fd, oid): the offset, null when getOidFromIdx returns
\* nothing or a falsy value, and an error on another signature
searchGitIndex(file, hash) ==
    LET r == ReaderRead(file, 0, 8)
    IN  IF r.buf # idxV2 THEN [kind |-> "throw", err |-> "unsupported IDX file"]
        ELSE LET v == getOidFromIdx(file, hash, r.offset)
             IN  IF v.kind = "throw" THEN [kind |-> "throw", err |-> v.err]
                 ELSE IF v.kind = "ok" /\ v.value # 0
                      THEN [kind |-> "ok", value |-> v.value]
                      ELSE [kind |-> "null"]

(***************************************************************************)
(* The delta applier (applyOffsetDelta)                                    *)
(*                                                                         *)
(* A Cursor is [pos, nan]: its position, and whether the position has      *)
(* become NaN (after slice(undefined)).  A byte read outside the buffer is *)
(* undefined: [def |-> FALSE].  Numbers stay below 2^31.                   *)
(***************************************************************************)
\* Cursor.readByte(): buffer[position++]
CursorReadByte(buf, cur) ==
    IF cur.nan \/ cur.pos >= Len(buf)
    THEN [def |-> FALSE, v |-> 0, cur |-> [pos |-> cur.pos + 1, nan |-> cur.nan]]
    ELSE [def |-> TRUE, v |-> buf[cur.pos + 1], cur |-> [pos |-> cur.pos + 1, nan |-> FALSE]]

\* Cursor.slice(offset): subarray(position, position + offset), position += offset
CursorSlice(buf, cur, offset) ==
    [buf |-> IF cur.nan THEN <<>> ELSE Subarray(buf, cur.pos, cur.pos + offset),
     cur |-> [pos |-> cur.pos + offset, nan |-> cur.nan]]

\* the loop of readVariableLengthInt: an undefined byte counts as 0 and ends it
RECURSIVE VarIntLoop(_, _, _, _)
VarIntLoop(buf, cur, result, shift) ==
    LET b == CursorReadByte(buf, cur)
    IN  IF b.def /\ b.v >= 128
        THEN VarIntLoop(buf, b.cur, result + (b.v % 128) * (2 ^ shift), shift + 7)
        ELSE [value |-> result + (b.v % 128) * (2 ^ shift), cur |-> b.cur]

\* readVariableLengthInt(cursor)
readVariableLengthInt(buf, cur) == VarIntLoop(buf, cur, 0, 0)

\* the loop of readCompactNumber: a byte is read where the flag's bit is set,
\* the shift grows by 8 at every position
RECURSIVE CompactLoop(_, _, _, _, _, _)
CompactLoop(buf, cur, flagMask, maxBytes, decodedNumber, shiftAmount) ==
    IF maxBytes = 0 THEN [value |-> decodedNumber, cur |-> cur]
    ELSE IF flagMask % 2 = 1
         THEN LET b == CursorReadByte(buf, cur)
              IN  CompactLoop(buf, b.cur, flagMask \div 2, maxBytes - 1,
                              decodedNumber + b.v * (2 ^ shiftAmount), shiftAmount + 8)
         ELSE CompactLoop(buf, cur, flagMask \div 2, maxBytes - 1,
                          decodedNumber, shiftAmount + 8)

\* readCompactNumber(cursor, flagMask, maxBytes)
readCompactNumber(buf, cur, flagMask, maxBytes) ==
    CompactLoop(buf, cur, flagMask, maxBytes, 0, 0)

\* a mutant of readDeltaOperation: a copy starts at the start of the source
readDeltaOperationNoOffset(delta, cur, source) ==
    LET op == CursorReadByte(delta, cur)
    IN  IF ~op.def
        THEN [buf |-> <<>>, cur |-> [pos |-> op.cur.pos, nan |-> TRUE]]
        ELSE IF op.v >= 128
        THEN LET offset == readCompactNumber(delta, op.cur, op.v % 16, 4)
                 size == readCompactNumber(delta, offset.cur, (op.v \div 16) % 8, 3)
                 sz == IF size.value = 0 THEN 65536 ELSE size.value
             IN  [buf |-> Subarray(source, 0, sz), cur |-> size.cur]
        ELSE CursorSlice(delta, op.cur, op.v)

\* readDeltaOperation(cursor, source): the bytes of the next operation.  An
\* undefined opcode is no copy, and slice(undefined) is empty and leaves the
\* position NaN
readDeltaOperation(delta, cur, source) ==
    LET op == CursorReadByte(delta, cur)
    IN  IF ~op.def
        THEN [buf |-> <<>>, cur |-> [pos |-> op.cur.pos, nan |-> TRUE]]
        ELSE IF op.v >= 128
        THEN LET offset == readCompactNumber(delta, op.cur, op.v % 16, 4)
                 size == readCompactNumber(delta, offset.cur, (op.v \div 16) % 8, 3)
                 sz == IF size.value = 0 THEN 65536 ELSE size.value
             IN  [buf |-> Subarray(source, offset.value, offset.value + sz),
                  cur |-> size.cur]
        ELSE CursorSlice(delta, op.cur, op.v)

\* Cursor.copyFrom(source) on the target: target is the bytes written so far
\* (the position is their number), size the length of the target buffer
CursorCopyFrom(target, size, bytes) ==
    LET bytesCopied == Min(Len(bytes), size - Len(target))
        written == target \o SubSeq(bytes, 1, bytesCopied)
    IN  [target |-> written, more |-> Len(written) < size]

\* the while loop of applyOffsetDelta.  Once the opcode is undefined the cursor
\* is NaN, every later operation is empty and the loop never ends
RECURSIVE FillTarget(_, _, _, _, _)
FillTarget(delta, cur, source, target, size) ==
    LET op == readDeltaOperation(delta, cur, source)
        c == CursorCopyFrom(target, size, op.buf)
    IN  IF ~c.more THEN [kind |-> "ok", data |-> c.target, early |-> FALSE]
        ELSE IF op.cur.nan THEN [kind |-> "diverge"]
        ELSE FillTarget(delta, op.cur, source, c.target, size)

\* applyOffsetDelta(delta, source)
applyOffsetDelta(delta, source) ==
    LET baseSize == readVariableLengthInt(delta, [pos |-> 0, nan |-> FALSE])
        targetSize == readVariableLengthInt(delta, baseSize.cur)
        operation == readDeltaOperation(delta, targetSize.cur, source)
    IN  IF Len(operation.buf) = targetSize.value
        THEN [kind |-> "ok", data |-> operation.buf, early |-> TRUE]
        ELSE FillTarget(delta, operation.cur, source,
                        CursorCopyFrom(<<>>, targetSize.value, operation.buf).target,
                        targetSize.value)

(***************************************************************************)
(* The delta format, as an encoder writes it                               *)
(***************************************************************************)
\* n in 7-bit groups, least significant first, the high bit set on all but the last
RECURSIVE EncodeVarInt(_)
EncodeVarInt(n) ==
    IF n < 128 THEN <<n>> ELSE <<128 + (n % 128)>> \o EncodeVarInt(n \div 128)

\* the bytes of n that are not zero, least significant first, and their flags
RECURSIVE EncodeCompact(_, _)
EncodeCompact(n, maxBytes) ==
    IF maxBytes = 0 THEN [flags |-> 0, bytes |-> <<>>]
    ELSE LET rest == EncodeCompact(n \div 256, maxBytes - 1)
         IN  IF n % 256 = 0
             THEN [flags |-> 2 * rest.flags, bytes |-> rest.bytes]
             ELSE [flags |-> 2 * rest.flags + 1, bytes |-> <<n % 256>> \o rest.bytes]

\* one instruction: Copy{offset, size} or Insert{lit}
EncodeInstr(in) ==
    IF in.op = "copy"
    THEN LET o == EncodeCompact(in.offset, 4)
             z == EncodeCompact(IF in.size = 65536 THEN 0 ELSE in.size, 3)
         IN  <<128 + 16 * z.flags + o.flags>> \o o.bytes \o z.bytes
    ELSE <<Len(in.lit)>> \o in.lit

RECURSIVE EncodeInstrs(_)
EncodeInstrs(ins) ==
    IF ins = <<>> THEN <<>> ELSE EncodeInstr(Head(ins)) \o EncodeInstrs(Tail(ins))

\* the delta: declared base size, declared target size, the instructions
EncodeDelta(baseSize, targetSize, ins) ==
    EncodeVarInt(baseSize) \o EncodeVarInt(targetSize) \o EncodeInstrs(ins)

\* what an instruction stands for: a range of the base, or its literal
InstrOutput(in, base) ==
    IF in.op = "copy" THEN SubSeq(base, in.offset + 1, in.offset + in.size) ELSE in.lit

\* what a sequence of instructions stands for: the outputs, in order
RECURSIVE InstrsOutput(_, _)
InstrsOutput(ins, base) ==
    IF ins = <<>> THEN <<>>
    ELSE InstrOutput(Head(ins), base) \o InstrsOutput(Tail(ins), base)

(***************************************************************************)
(* SpecDelta: applyOffsetDelta on encoded instruction sequences            *)
(***************************************************************************)
\* the most instructions of a delta
MaxInstrs == 3

\* n bytes that differ from place to place
Pattern(n) == [i \in 1..n |-> (i * 7) % 256]

\* every range of at least one byte of a buffer of n bytes
AllRanges(n) == {d \in (0..n) \X (1..n) : d[1] + d[2] <= n}

\* the base buffers, each with the <<offset, size>> ranges copied from it: every
\* range of the small ones; of the large ones, ranges whose offset or size has
\* a zero low byte, and the size 65536 that is written as 0
DeltaCases ==
    { [source |-> <<>>, ranges |-> {}],
      [source |-> <<10, 20>>, ranges |-> AllRanges(2)],
      [source |-> <<7, 8, 9, 200>>, ranges |-> AllRanges(4)],
      [source |-> Pattern(600), ranges |-> {<<256, 2>>, <<0, 256>>, <<44, 512>>, <<299, 300>>}],
      [source |-> Pattern(65540), ranges |-> {<<0, 65536>>, <<3, 65536>>}] }

DeltaSources == {c.source : c \in DeltaCases}

DeltaLiterals == {<<65>>, <<66, 0, 255>>}

\* the instructions that are valid against base
InstrsOn(base) ==
    {[op |-> "copy", offset |-> r[1], size |-> r[2]] :
        r \in (CHOOSE c \in DeltaCases : c.source = base).ranges}
    \cup {[op |-> "insert", lit |-> l] : l \in DeltaLiterals}

\* the sequences of at most n instructions of S
RECURSIVE SeqsUpTo(_, _)
SeqsUpTo(S, n) ==
    IF n = 0 THEN {<<>>}
    ELSE LET prev == SeqsUpTo(S, n - 1)
         IN  prev \cup {Append(q, x) : q \in {p \in prev : Len(p) = n - 1}, x \in S}

InitDelta ==
    /\ mode = "delta"
    /\ pc = "call"
    /\ dSource \in DeltaSources
    /\ dInstrs \in SeqsUpTo(InstrsOn(dSource), MaxInstrs)
    /\ dTarget \in {t \in {Len(InstrsOutput(dInstrs, dSource)) + k : k \in {-1, 0, 1}} : t >= 0}
    /\ dDelta = EncodeDelta(Len(dSource), dTarget, dInstrs)
    /\ dOut = [kind |-> "none"]
    /\ NoIndex
    /\ NoPack
    /\ NoInflater
    /\ NoScan
    /\ NoTimestamp
    /\ NoHead

Apply ==
    /\ mode = "delta"
    /\ pc = "call"
    /\ dOut' = applyOffsetDelta(dDelta, dSource)
    /\ pc' = "done"
    /\ UNCHANGED <<mode, dSource, dInstrs, dTarget, dDelta, indexVars, packVars, inflaterVars, scanVars, tsVars, headVars>>

NextDelta == Apply

SpecDelta == InitDelta /\ [][NextDelta]_vars

\* the delta is valid: its instructions' outputs total the declared target size
ValidDelta == Len(InstrsOutput(dInstrs, dSource)) = dTarget

\* C4: applied to an encoded valid delta, applyOffsetDelta returns the outputs
\* of the instructions in order, of the declared length, on the early return
\* of the first operation as when the target is assembled.
C4_RoundTrip ==
    (mode = "delta" /\ pc = "done" /\ ValidDelta) =>
        /\ dOut.kind = "ok"
        /\ dOut.data = InstrsOutput(dInstrs, dSource)
        /\ Len(dOut.data) = dTarget

\* a target assembled from a copy and an insert
C4_Witness ==
    /\ mode = "delta" /\ pc = "done" /\ ValidDelta
    /\ Len(dInstrs) = 3
    /\ dInstrs[1].op = "insert" /\ dInstrs[2].op = "copy" /\ dInstrs[2].offset = 1
    /\ dOut.kind = "ok" /\ ~dOut.early

\* C5: a delta whose instructions' outputs do not total the declared target
\* size ends in a failure, and no buffer is returned for it.
C5_MalformedDeltaFails ==
    (mode = "delta" /\ pc = "done" /\ ~ValidDelta) => dOut.kind = "throw"

(***************************************************************************)
(* zlib streams and the Inflater                                           *)
(*                                                                         *)
(* The native inflate is modelled on well-formed zlib streams of stored    *)
(* blocks: a 2-byte header, blocks of (final flag, LEN, NLEN, LEN bytes),  *)
(* a 4-byte Adler-32.  Its state is [zmode, acc, left, last]: the decoding *)
(* mode, the bytes gathered of the field being read, the bytes left of the *)
(* stored block, and whether the block is the final one.                   *)
(***************************************************************************)
\* constants.Z_MIN_CHUNK of node:zlib
Z_MIN_CHUNK == 64

\* the state of a stream after init and after reset
ZInit == [zmode |-> "HEAD", acc |-> <<>>, left |-> 0, last |-> FALSE]

\* the one element of a singleton set.  A value that is used more than once
\* is bound as TheOne({e(x) : x \in {v}}), so that it is computed once
TheOne(S) == CHOOSE x \in S : TRUE

\* one step of inflate(strm, Z_BLOCK) from state z on the input inp with room
\* free output bytes; stop is set where inflate returns: at a block boundary
\* (TYPE), when the input is used up, when the output is full, and at the end
\* of the stream (DONE)
ZStep(z, inp, room, out) ==
    LET leave == [stop |-> TRUE, z |-> z, rest |-> inp, out |-> out]
        go(zz, rest) == [stop |-> FALSE, z |-> zz, rest |-> rest, out |-> out]
        take == Append(z.acc, Head(inp))
        copy == Min(z.left, Min(Len(inp), room - Len(out)))
    IN  CASE z.zmode = "HEAD" ->
               IF inp = <<>> THEN leave
               ELSE IF Len(take) < 2 THEN go([z EXCEPT !.acc = take], Tail(inp))
               ELSE go([z EXCEPT !.zmode = "TYPE", !.acc = <<>>], Tail(inp))
          [] z.zmode = "TYPE" -> leave
          [] z.zmode = "TYPEDO" ->
               IF z.last THEN go([z EXCEPT !.zmode = "CHECK"], inp)
               ELSE IF inp = <<>> THEN leave
               ELSE go([z EXCEPT !.zmode = "STORED", !.last = (Head(inp) % 2 = 1)],
                       Tail(inp))
          [] z.zmode = "STORED" ->
               IF inp = <<>> THEN leave
               ELSE IF Len(take) < 4 THEN go([z EXCEPT !.acc = take], Tail(inp))
               ELSE go([z EXCEPT !.zmode = "COPY", !.acc = <<>>,
                                 !.left = take[1] + 256 * take[2]], Tail(inp))
          [] z.zmode = "COPY" ->
               IF z.left = 0 THEN go([z EXCEPT !.zmode = "TYPE"], inp)
               ELSE IF copy = 0 THEN leave
               ELSE [stop |-> FALSE, z |-> [z EXCEPT !.left = z.left - copy],
                     rest |-> SubSeq(inp, copy + 1, Len(inp)),
                     out |-> out \o SubSeq(inp, 1, copy)]
          [] z.zmode = "CHECK" ->
               IF inp = <<>> THEN leave
               ELSE IF Len(take) < 4 THEN go([z EXCEPT !.acc = take], Tail(inp))
               ELSE go([z EXCEPT !.zmode = "DONE", !.acc = <<>>], Tail(inp))
          [] OTHER -> leave

\* inflate(strm, Z_BLOCK): steps until one stops
RECURSIVE ZInflate(_, _, _, _)
ZInflate(z, inp, room, out) ==
    TheOne({IF s.stop THEN [z |-> s.z, rest |-> s.rest, out |-> s.out]
            ELSE ZInflate(s.z, s.rest, room, s.out) :
            s \in {ZStep(z, inp, room, out)}})

\* zlib.writeSync(Z_BLOCK, chunk, inOffset, availIn, output, outOffset, availOut):
\* a stream left at a block boundary goes on; the write result is the free
\* output and the unread input
ZlibWriteSync(z, chunk, inOffset, availIn, availOut) ==
    TheOne({[z |-> r.z, out |-> r.out,
             availOutAfter |-> availOut - Len(r.out), availInAfter |-> Len(r.rest)] :
            r \in {ZInflate(IF z.zmode = "TYPE" THEN [z EXCEPT !.zmode = "TYPEDO"] ELSE z,
                            SubSeq(chunk, inOffset + 1, inOffset + availIn),
                            availOut, <<>>)}})

\* a mutant of ZlibReset: the stream is left as the last inflate left it
ZlibResetSkipped(z) == z

\* zlib.reset()
ZlibReset(z) == ZInit

\* the inner loop of inflate: writeSync while input and room remain.  A write
\* that reads nothing, writes nothing and leaves the stream as it was repeats
\* for ever
RECURSIVE InflateInner(_, _, _, _, _, _)
InflateInner(z, chunk, inOffset, availInBefore, output, outSize) ==
    IF ~(availInBefore > 0 /\ outSize - Len(output) > 0)
    THEN [kind |-> "ok", z |-> z, output |-> output]
    ELSE TheOne({IF w.z = z /\ availInBefore - w.availInAfter = 0 /\ w.out = <<>>
                 THEN [kind |-> "diverge"]
                 ELSE InflateInner(w.z, chunk,
                                   inOffset + (availInBefore - w.availInAfter),
                                   w.availInAfter, output \o w.out, outSize) :
                 w \in {ZlibWriteSync(z, chunk, inOffset, availInBefore,
                                      outSize - Len(output))}})

\* one turn of the outer loop of inflate, chunk being what the peek read
RECURSIVE InflateOuter(_, _, _, _, _, _)
InflateChunk(z, file, offset, output, outSize, chunkSize, chunk) ==
    IF chunk = <<>> THEN [kind |-> "diverge"]
    ELSE TheOne({IF in.kind = "diverge" THEN [kind |-> "diverge"]
                 ELSE InflateOuter(in.z, file, offset + Len(chunk), in.output,
                                   outSize, chunkSize) :
                 in \in {InflateInner(z, chunk, 0, Len(chunk), output, outSize)}})

\* the outer loop of inflate: peek a chunk, seek past it, inflate it.  A peek
\* that reads nothing (the end of the file) leaves everything as it was, and
\* the loop repeats for ever
InflateOuter(z, file, offset, output, outSize, chunkSize) ==
    IF ~(Len(output) < outSize)
    THEN [kind |-> "ok", data |-> output, z |-> ZlibReset(z), offset |-> offset]
    ELSE TheOne({InflateChunk(z, file, offset, output, outSize, chunkSize, chunk) :
                 chunk \in {ReaderPeek(file, offset, chunkSize)}})

\* Inflater.inflate(reader, outSize): open is whether this.zlib is set, z the
\* state of its stream, offset the reader's
inflate(open, z, file, offset, outSize) ==
    IF ~open THEN [kind |-> "throw", err |-> "Inflater has been closed"]
    ELSE InflateOuter(z, file, offset, <<>>, outSize, Max(Z_MIN_CHUNK, outSize))

(***************************************************************************)
(* zlib streams, as a compressor writes them (stored blocks)               *)
(***************************************************************************)
\* the sum over i in lo..hi of w(i) * d[i], where w(i) is 1, or n - i + 1
\* when weighted (halving the range keeps the evaluation shallow)
RECURSIVE SumRange(_, _, _, _)
SumRange(d, lo, hi, weighted) ==
    IF lo > hi THEN 0
    ELSE IF lo = hi THEN (IF weighted THEN Len(d) - lo + 1 ELSE 1) * d[lo]
    ELSE SumRange(d, lo, (lo + hi) \div 2, weighted)
         + SumRange(d, ((lo + hi) \div 2) + 1, hi, weighted)

\* the Adler-32 of d, big-endian
Adler32(d) ==
    LET a == (1 + SumRange(d, 1, Len(d), FALSE)) % 65521
        b == (Len(d) + SumRange(d, 1, Len(d), TRUE)) % 65521
    IN  <<b \div 256, b % 256, a \div 256, a % 256>>

\* d in stored blocks of at most blk bytes
RECURSIVE StoredBlocks(_, _)
StoredBlocks(d, blk) ==
    LET n == Min(Len(d), blk)
        header(final) == <<final, n % 256, n \div 256, 255 - (n % 256), 255 - (n \div 256)>>
    IN  IF Len(d) <= blk THEN header(1) \o d
        ELSE header(0) \o SubSeq(d, 1, n) \o StoredBlocks(SubSeq(d, n + 1, Len(d)), blk)

\* the zlib stream of d: header 0x78 0x01, the blocks, the Adler-32
Deflate(d, blk) == <<120, 1>> \o StoredBlocks(d, blk) \o Adler32(d)

(***************************************************************************)
(* The pack object reader (readFromPack)                                   *)
(***************************************************************************)
\* the types map: bits 6-4 of the first byte of an object to the type's name
types ==
    [c \in {1, 2, 3, 4, 6, 7} |->
        CASE c = 1 -> "commit" [] c = 2 -> "tree" [] c = 3 -> "blob"
          [] c = 4 -> "tag" [] c = 6 -> "ofs-delta" [] OTHER -> "ref-delta"]

\* the loop of readByteLength: seven more bits from each byte, from shift on
RECURSIVE ByteLengthLoop(_, _, _, _)
ByteLengthLoop(file, offset, byteLength, shift) ==
    LET b == ReaderReadUInt8(file, offset, 0)
    IN  IF b.kind = "throw" THEN b
        ELSE IF b.value >= 128
        THEN ByteLengthLoop(file, b.offset, byteLength + (b.value % 128) * (2 ^ shift),
                            shift + 7)
        ELSE [kind |-> "ok", value |-> byteLength + (b.value % 128) * (2 ^ shift),
              offset |-> b.offset]

\* readByteLength(reader, flags)
readByteLength(file, offset, flags) ==
    IF flags >= 128 THEN ByteLengthLoop(file, offset, flags % 16, 4)
    ELSE [kind |-> "ok", value |-> flags % 16, offset |-> offset]

\* a mutant of QuantityLoop: the groups are joined without the bias of one
RECURSIVE QuantityLoopNoBias(_, _, _)
QuantityLoopNoBias(file, offset, a) ==
    LET b == ReaderReadUInt8(file, offset, 0)
        acc == Max(a, 0) * 128 + (b.value % 128)
    IN  IF b.kind = "throw" THEN b
        ELSE IF b.value >= 128 THEN QuantityLoopNoBias(file, b.offset, acc)
        ELSE [kind |-> "ok", value |-> acc, offset |-> b.offset]

\* the do-while loop of parseVariableLengthQuantity, folded as its reduce does
\* from -1: a is the accumulator before this byte
RECURSIVE QuantityLoop(_, _, _)
QuantityLoop(file, offset, a) ==
    LET b == ReaderReadUInt8(file, offset, 0)
        acc == (a + 1) * 128 + (b.value % 128)
    IN  IF b.kind = "throw" THEN b
        ELSE IF b.value >= 128 THEN QuantityLoop(file, b.offset, acc)
        ELSE [kind |-> "ok", value |-> acc, offset |-> b.offset]

\* parseVariableLengthQuantity(reader)
parseVariableLengthQuantity(file, offset) == QuantityLoop(file, offset, -1)

\* a mutant of ResolvedType: the object's own wire type is reported
ResolvedTypeOwn(own, base) == own

\* the type a delta reports: the one its base resolved to (lines 298 and 304)
ResolvedType(own, base) == base

\* the end of the two delta cases: the object inflated, the delta applied to
\* the base's bytes, the base's type reported
ReadDeltaOn(code, base, object) ==
    IF object.kind # "ok" THEN object
    ELSE TheOne({IF applied.kind # "ok" THEN applied
                 ELSE [kind |-> "ok", type |-> ResolvedType(types[code], base.type),
                       data |-> applied.data, z |-> object.z, depth |-> base.depth + 1] :
                 applied \in {applyOffsetDelta(object.data, base.data)}})

\* a delta whose base has been read: a failure of the base is the failure of
\* the delta; payload is where the compressed bytes start
ReadDelta(pack, open, code, byteLength, payload, base) ==
    IF base.kind # "ok" THEN base
    ELSE TheOne({ReadDeltaOn(code, base, object) :
                 object \in {inflate(open, base.z, pack, payload, byteLength)}})

\* the default case: the object is its inflated bytes
ReadLiteral(code, object) ==
    IF object.kind # "ok" THEN object
    ELSE [kind |-> "ok", type |-> types[code], data |-> object.data, z |-> object.z,
          depth |-> 1]

\* readFromPack(packFd, idxFd, offset, inflater).  path holds the offsets of
\* the calls that are waiting for this one: a call at one of them recurses
\* without end, which the runtime ends with a RangeError (the call stack).
RECURSIVE readFromPack(_, _, _, _, _, _)

\* the "ofs-delta" case, end being the parsed quantity
ReadOfsDelta(pack, idx, offset, open, z, path, code, byteLength, end) ==
    IF end.kind = "throw" THEN [kind |-> "throw", err |-> end.err]
    ELSE IF offset - end.value < 0 THEN [kind |-> "throw", err |-> "ERR_OUT_OF_RANGE"]
    ELSE TheOne({ReadDelta(pack, open, code, byteLength.value, end.offset, base) :
                 base \in {readFromPack(pack, idx, offset - end.value, open, z,
                                        Append(path, offset))}})

\* the "ref-delta" case, at being what the index holds for the base's hash:
\* a null offset (a hash the index does not hold) seeks by 0
ReadRefDelta(pack, idx, offset, open, z, path, code, byteLength, at) ==
    IF at.kind = "throw" THEN [kind |-> "throw", err |-> at.err]
    ELSE TheOne({ReadDelta(pack, open, code, byteLength.value, byteLength.offset + 20,
                           base) :
                 base \in {readFromPack(pack, idx,
                                        IF at.kind = "ok" THEN at.value ELSE 0,
                                        open, z, Append(path, offset))}})

\* the switch on the type, byteLength being the size read
ReadSized(pack, idx, offset, open, z, path, code, byteLength) ==
    IF byteLength.kind = "throw" THEN [kind |-> "throw", err |-> byteLength.err]
    ELSE IF types[code] = "ofs-delta"
    THEN TheOne({ReadOfsDelta(pack, idx, offset, open, z, path, code, byteLength, end) :
                 end \in {parseVariableLengthQuantity(pack, byteLength.offset)}})
    ELSE IF types[code] = "ref-delta"
    THEN TheOne({ReadRefDelta(pack, idx, offset, open, z, path, code, byteLength, at) :
                 at \in {searchGitIndex(idx, ReaderPeek(pack, byteLength.offset, 20))}})
    ELSE TheOne({ReadLiteral(code, object) :
                 object \in {inflate(open, z, pack, byteLength.offset,
                                     byteLength.value)}})

\* the type looked up, flags being the first byte read
ReadTyped(pack, idx, offset, open, z, path, flags) ==
    IF flags.kind = "throw" THEN [kind |-> "throw", err |-> flags.err]
    ELSE IF (flags.value \div 16) % 8 \notin DOMAIN types
    THEN [kind |-> "throw", err |-> "Unsupported type"]
    ELSE TheOne({ReadSized(pack, idx, offset, open, z, path, (flags.value \div 16) % 8,
                           byteLength) :
                 byteLength \in {readByteLength(pack, flags.offset, flags.value)}})

readFromPack(pack, idx, offset, open, z, path) ==
    IF \E k \in 1..Len(path) : path[k] = offset
    THEN [kind |-> "throw", err |-> "RangeError"]
    ELSE TheOne({ReadTyped(pack, idx, offset, open, z, path, flags) :
                 flags \in {ReaderReadUInt8(pack, offset, 0)}})

(***************************************************************************)
(* Pack and index files, as a packer writes them                           *)
(*                                                                         *)
(* A pack is described by its objects, in file order: [code, data] for a   *)
(* literal of type code, [code, base, instrs] for a delta (code 6 or 7)    *)
(* against the object at index base.                                       *)
(***************************************************************************)
\* the first bytes of an object: type and low four bits of the size, then the
\* rest of the size in 7-bit groups
EncodeObjHeader(code, size) ==
    IF size < 16 THEN <<16 * code + size>>
    ELSE <<128 + 16 * code + (size % 16)>> \o EncodeVarInt(size \div 16)

\* the bytes before the last of a relative offset: n is what is left to write
RECURSIVE EncodeOfsHigh(_)
EncodeOfsHigh(n) ==
    IF n = 0 THEN <<>>
    ELSE EncodeOfsHigh((n - 1) \div 128) \o <<128 + ((n - 1) % 128)>>

\* the relative offset of an offset delta's base
EncodeOfs(n) == EncodeOfsHigh(n \div 128) \o <<n % 128>>

\* the hash the index names the i-th object by
ObjHash(i) == MkHash(<<0, 1, 255, 0, 1, 255>>[i], i)

\* the bytes the i-th object resolves to
RECURSIVE ObjData(_, _)
ObjData(objs, i) ==
    IF objs[i].code \in {6, 7}
    THEN InstrsOutput(objs[i].instrs, ObjData(objs, objs[i].base))
    ELSE objs[i].data

\* the type the i-th object resolves to
RECURSIVE ObjType(_, _)
ObjType(objs, i) ==
    IF objs[i].code \in {6, 7} THEN ObjType(objs, objs[i].base) ELSE types[objs[i].code]

\* the bytes of the i-th object, written at offset at; offsets holds the
\* offsets of the objects before it
ObjBytes(objs, i, at, offsets) ==
    LET o == objs[i]
        payload == IF o.code \in {6, 7}
                   THEN EncodeDelta(Len(ObjData(objs, o.base)), Len(ObjData(objs, i)),
                                    o.instrs)
                   ELSE o.data
    IN  EncodeObjHeader(o.code, Len(payload))
        \o (IF o.code = 6 THEN EncodeOfs(at - offsets[o.base])
            ELSE IF o.code = 7 THEN ObjHash(o.base) ELSE <<>>)
        \o Deflate(payload, 50)

\* the offsets of the first n objects
RECURSIVE ObjOffsets(_, _)
ObjOffsets(objs, n) ==
    IF n = 0 THEN <<>>
    ELSE LET before == ObjOffsets(objs, n - 1)
         IN  IF n = 1 THEN <<12>>
             ELSE Append(before, before[n - 1]
                                 + Len(ObjBytes(objs, n - 1, before[n - 1], before)))

\* the objects' bytes, one after the other
RECURSIVE ObjsBytes(_, _, _)
ObjsBytes(objs, offsets, i) ==
    IF i > Len(objs) THEN <<>>
    ELSE ObjBytes(objs, i, offsets[i], offsets) \o ObjsBytes(objs, offsets, i + 1)

\* the pack file: "PACK", version 2, the number of objects, the objects, a
\* 20-byte checksum (which nothing reads)
PackFileOf(objs) ==
    <<80, 65, 67, 75, 0, 0, 0, 2>> \o UInt32BE(Len(objs))
    \o ObjsBytes(objs, ObjOffsets(objs, Len(objs)), 1) \o Zeros(20)

\* the index file of the pack
PackIdxOf(objs) ==
    LET offsets == ObjOffsets(objs, Len(objs))
    IN  IdxFileOf(SortEntries({<<ObjHash(i), offsets[i]>> : i \in 1..Len(objs)}))

(***************************************************************************)
(* SpecIndex: searchGitIndex on constructed index files                    *)
(***************************************************************************)
\* the most entries of a constructed index
MaxEntries == 3

IndexHashes == {MkHash(f, l) : f \in {0, 1, 255}, l \in {1, 2}}

QueryHashes == {MkHash(f, l) : f \in {0, 1, 128, 255}, l \in {0, 1, 2, 3}}

\* offsets an entry may carry: zero, the first offset of a pack, and one whose first byte is set
IndexOffsets == {0, 12, 16777228}

\* the sets of at most MaxEntries entries with distinct hashes
RECURSIVE EntrySets(_)
EntrySets(n) ==
    IF n = 0 THEN {{}}
    ELSE LET prev == EntrySets(n - 1)
         IN  prev \cup { es \cup {<<h, o>>} :
                           es \in {p \in prev : Cardinality(p) = n - 1},
                           h \in IndexHashes, o \in IndexOffsets }

DistinctHashes(es) == \A e, f \in es : e[1] = f[1] => e = f

InitIndex ==
    /\ mode = "index"
    /\ pc = "call"
    /\ idxEntries \in {es \in EntrySets(MaxEntries) : DistinctHashes(es)}
    /\ idxFile = IdxFileOf(SortEntries(idxEntries))
    /\ oid \in QueryHashes
    /\ found = [kind |-> "none"]
    /\ NoDelta
    /\ NoPack
    /\ NoInflater
    /\ NoScan
    /\ NoTimestamp
    /\ NoHead

Search ==
    /\ mode = "index"
    /\ pc = "call"
    /\ found' = searchGitIndex(idxFile, oid)
    /\ pc' = "done"
    /\ UNCHANGED <<mode, idxFile, idxEntries, oid, deltaVars, packVars, inflaterVars, scanVars, tsVars, headVars>>

NextIndex == Search

SpecIndex == InitIndex /\ [][NextIndex]_vars

\* the offset the index holds for the hash, when it holds the hash
HasEntry(h) == \E e \in idxEntries : e[1] = h

OffsetOf(h) == (CHOOSE e \in idxEntries : e[1] = h)[2]

(***************************************************************************)
(* SpecPack: readFromPack at every object of constructed packs             *)
(***************************************************************************)
\* the most objects of a constructed pack
MaxObjects == 3

\* the literal a pack starts with: a size in the first byte, one that goes on
\* into a second byte, and one that takes three stored blocks and two chunks
FirstLiterals ==
    { [code |-> 1, data |-> <<99, 100, 101>>],
      [code |-> 2, data |-> Pattern(17)],
      [code |-> 3, data |-> Pattern(130)],
      [code |-> 4, data |-> <<5>>] }

\* the literals added later
MoreLiterals == { [code |-> 4, data |-> <<116, 97, 103>>], [code |-> 2, data |-> <<6, 7>>] }

\* the deltas written against a base of n bytes: a single copy of the whole
\* base, an insert before it, and its tail before an insert
DeltasOn(n) ==
    { <<[op |-> "copy", offset |-> 0, size |-> n]>>,
      <<[op |-> "insert", lit |-> <<72>>], [op |-> "copy", offset |-> 0, size |-> n]>>,
      IF n > 1
      THEN <<[op |-> "copy", offset |-> 1, size |-> n - 1],
             [op |-> "insert", lit |-> <<33, 34>>]>>
      ELSE <<[op |-> "insert", lit |-> <<33, 34>>]>> }

InitPack ==
    /\ mode = "pack"
    /\ pc = "write"
    /\ pObjs \in {<<l>> : l \in FirstLiterals}
    /\ pPack = PackFileOf(pObjs)
    /\ pIdx = PackIdxOf(pObjs)
    /\ pRes = <<>>
    /\ NoIndex
    /\ NoDelta
    /\ NoInflater
    /\ NoScan
    /\ NoTimestamp
    /\ NoHead

\* the packer appends an object
AddObject(o) ==
    /\ mode = "pack"
    /\ pc = "write"
    /\ Len(pObjs) < MaxObjects
    /\ pObjs' = Append(pObjs, o)
    /\ pPack' = PackFileOf(pObjs')
    /\ pIdx' = PackIdxOf(pObjs')
    /\ UNCHANGED <<mode, pc, pRes, indexVars, deltaVars, inflaterVars,
                 scanVars, tsVars, headVars>>

AddLiteral == \E l \in MoreLiterals : AddObject(l)

AddDelta ==
    \E code \in {6, 7}, base \in 1..Len(pObjs) :
        \E ins \in DeltasOn(Len(ObjData(pObjs, base))) :
            AddObject([code |-> code, base |-> base, instrs |-> ins])

\* readFromPack at the offset of every object, each with an inflater of its own
ReadObjects ==
    /\ mode = "pack"
    /\ pc = "write"
    /\ pRes' = [i \in 1..Len(pObjs) |->
                  readFromPack(pPack, pIdx, ObjOffsets(pObjs, Len(pObjs))[i],
                               TRUE, ZInit, <<>>)]
    /\ pc' = "done"
    /\ UNCHANGED <<mode, pObjs, pPack, pIdx, indexVars, deltaVars, inflaterVars,
                 scanVars, tsVars, headVars>>

NextPack == AddLiteral \/ AddDelta \/ ReadObjects

SpecPack == InitPack /\ [][NextPack]_vars

IsDelta(o) == o.code \in {6, 7}

\* C2: readFromPack returns the bytes got by applying the chain's deltas, the
\* innermost first, to the literal at its end, with that literal's type; an
\* offset delta and a ref delta with the same base and instructions resolve
\* alike; a single copy of the whole base resolves as the base does.
C2_ChainResolves ==
    (mode = "pack" /\ pc = "done") =>
        /\ \A i \in 1..Len(pObjs) :
              /\ pRes[i].kind = "ok"
              /\ pRes[i].data = ObjData(pObjs, i)
              /\ pRes[i].type = ObjType(pObjs, i)
        /\ \A i, j \in 1..Len(pObjs) :
              (/\ pObjs[i].code = 6 /\ pObjs[j].code = 7
               /\ pObjs[i].base = pObjs[j].base /\ pObjs[i].instrs = pObjs[j].instrs)
              => (pRes[i].data = pRes[j].data /\ pRes[i].type = pRes[j].type)
        /\ \A i \in 1..Len(pObjs) :
              (/\ IsDelta(pObjs[i])
               /\ pObjs[i].instrs = <<[op |-> "copy", offset |-> 0,
                                       size |-> Len(ObjData(pObjs, pObjs[i].base))]>>)
              => (/\ pRes[i].data = pRes[pObjs[i].base].data
                  /\ pRes[i].type = pRes[pObjs[i].base].type)

\* a chain of depth 3, a ref delta of an offset delta of a literal, whose
\* deltas change the bytes
C2_Witness ==
    /\ mode = "pack" /\ pc = "done" /\ Len(pObjs) = 3
    /\ pObjs[2].code = 6 /\ pObjs[2].base = 1
    /\ pObjs[3].code = 7 /\ pObjs[3].base = 2
    /\ pRes[3].kind = "ok" /\ pRes[3].depth = 3
    /\ pRes[3].data # pRes[2].data /\ pRes[2].data # pRes[1].data

\* C3: the type readFromPack returns is commit, tree, blob or tag, never one
\* of the delta wire types, whatever the chain.
C3_TypeResolved ==
    (mode = "pack" /\ pc = "done") =>
        \A i \in 1..Len(pObjs) :
            pRes[i].kind = "ok" => pRes[i].type \in {"commit", "tree", "blob", "tag"}

\* an offset delta of a ref delta of a tree is returned as a tree
C3_Witness ==
    /\ mode = "pack" /\ pc = "done" /\ Len(pObjs) = 3
    /\ pObjs[1].code = 2
    /\ pObjs[2].code = 7 /\ pObjs[2].base = 1
    /\ pObjs[3].code = 6 /\ pObjs[3].base = 2
    /\ pRes[3].kind = "ok" /\ pRes[3].type = "tree"

\* C1: searchGitIndex returns the offset of the entry whose hash is looked up,
\* whatever the offset is, and null when the index holds no such hash.
C1_IndexLookup ==
    (mode = "index" /\ pc = "done") =>
        IF HasEntry(oid)
        THEN found = [kind |-> "ok", value |-> OffsetOf(oid)]
        ELSE found = [kind |-> "null"]

\* what the code does: the claim for the entries whose offset is not zero; an
\* entry whose offset is zero is reported as null (the test at line 237)
IndexLookupNonZero ==
    (mode = "index" /\ pc = "done") =>
        IF HasEntry(oid) /\ OffsetOf(oid) # 0
        THEN found = [kind |-> "ok", value |-> OffsetOf(oid)]
        ELSE found = [kind |-> "null"]
(***************************************************************************)
(* SpecInflater: inflate and close calls on one Inflater                   *)
(*                                                                         *)
(* The file holds zlib streams one after the other.  Each inflate call is  *)
(* made as readFromPack makes it: with a new Reader at the start of a      *)
(* stream and the stream's plain length as outSize.  A file may be cut     *)
(* short.  A call that never returns leaves the behaviour at pc "hung".    *)
(***************************************************************************)
\* the most calls made on the Inflater
MaxCalls == 5

\* the plain bytes of the streams of a file: 3 bytes, and 70 bytes in two
\* stored blocks that take two chunks to read
InflaterDatas ==
    LET D == {<<99, 100, 101>>, Pattern(70)}
    IN  {<<d>> : d \in D} \union {<<d, e>> : d \in D, e \in D}

\* the bytes cut from the end of the file: none, some of the checksum of the
\* last stream, its last data byte too, and more
Cuts == {0, 1, 5, 30}

\* where the k-th stream starts
RECURSIVE StreamOffset(_, _)
StreamOffset(ds, k) ==
    IF k = 1 THEN 0 ELSE StreamOffset(ds, k - 1) + Len(Deflate(ds[k - 1], 50))

\* the streams of a file: where each starts, its plain bytes, and where its
\* last data byte ends (the checksum follows)
StreamsOf(ds) ==
    [k \in 1..Len(ds) |->
        [offset |-> StreamOffset(ds, k), data |-> ds[k],
         end |-> StreamOffset(ds, k) + 2 + Len(StoredBlocks(ds[k], 50))]]

\* the bytes of the file
RECURSIVE StreamsBytes(_, _)
StreamsBytes(ds, k) ==
    IF k > Len(ds) THEN <<>> ELSE Deflate(ds[k], 50) \o StreamsBytes(ds, k + 1)

\* new Inflater(), and the file the readers will read
InitInflater ==
    /\ mode = "inflater"
    /\ pc = "run"
    /\ \E ds \in InflaterDatas, cut \in Cuts :
          /\ rStreams = StreamsOf(ds)
          /\ rFile = SubSeq(StreamsBytes(ds, 1), 1,
                            Max(0, Len(StreamsBytes(ds, 1)) - cut))
    /\ zlib = [open |-> TRUE, z |-> ZInit]
    /\ closes = 0
    /\ log = <<>>
    /\ NoIndex
    /\ NoDelta
    /\ NoPack
    /\ NoScan
    /\ NoTimestamp
    /\ NoHead

\* inflater.inflate(new Reader(fd).seek(offset of stream k), its plain length)
Inflate ==
    /\ mode = "inflater"
    /\ pc = "run"
    /\ Len(log) < MaxCalls
    /\ \E k \in 1..Len(rStreams) :
          \E r \in {inflate(zlib.open, zlib.z, rFile, rStreams[k].offset,
                            Len(rStreams[k].data))} :
              /\ zlib' = IF r.kind = "ok" THEN [zlib EXCEPT !.z = r.z] ELSE zlib
              /\ pc' = IF r.kind = "diverge" THEN "hung" ELSE "run"
              /\ log' = Append(log,
                     [op |-> "inflate", stream |-> k, wasOpen |-> zlib.open,
                      kind |-> r.kind,
                      err |-> IF r.kind = "throw" THEN r.err ELSE "",
                      data |-> IF r.kind = "ok" THEN r.data ELSE <<>>,
                      readerOffset |-> IF r.kind = "ok" THEN r.offset
                                       ELSE rStreams[k].offset])
    /\ UNCHANGED <<mode, rFile, rStreams, closes, indexVars, deltaVars, packVars,
                 scanVars, tsVars, headVars>>

\* inflater.close()
Close ==
    /\ mode = "inflater"
    /\ pc = "run"
    /\ Len(log) < MaxCalls
    /\ closes' = IF zlib.open THEN closes + 1 ELSE closes
    /\ zlib' = [zlib EXCEPT !.open = FALSE]
    /\ log' = Append(log, [op |-> "close", wasOpen |-> zlib.open])
    /\ UNCHANGED <<mode, pc, rFile, rStreams, indexVars, deltaVars, packVars,
                 scanVars, tsVars, headVars>>

NextInflater == Inflate \/ Close

SpecInflater == InitInflater /\ [][NextInflater]_vars

\* the file ends before the last data byte of stream k
Truncated(k) == Len(rFile) < rStreams[k].end

\* C9: an inflate that returns leaves the stream reset, so that every inflate
\* before close gives the plain bytes of the stream it is pointed at; an
\* inflate after close fails with the closed error and leaves the reader where
\* it was; the native close has run once when close was called, however often.
C9_InflaterLifecycle ==
    mode = "inflater" =>
        /\ (Len(log) > 0 /\ log[Len(log)].op = "inflate" /\ log[Len(log)].kind = "ok")
              => zlib.z = ZInit
        /\ \A i \in 1..Len(log) :
              (log[i].op = "inflate" /\ log[i].wasOpen /\ log[i].kind = "ok")
              => log[i].data = rStreams[log[i].stream].data
        /\ \A i \in 1..Len(log) :
              (log[i].op = "inflate" /\ ~log[i].wasOpen)
              => /\ log[i].kind = "throw"
                 /\ log[i].err = "Inflater has been closed"
                 /\ log[i].readerOffset = rStreams[log[i].stream].offset
        /\ closes = (IF \E i \in 1..Len(log) : log[i].op = "close" THEN 1 ELSE 0)

\* two streams inflated one after the other, close called twice, then an
\* inflate on the closed Inflater
C9_Witness ==
    /\ mode = "inflater" /\ Len(log) = 5
    /\ log[1].op = "inflate" /\ log[1].kind = "ok" /\ log[1].stream = 1
    /\ Len(log[1].data) = 70
    /\ log[2].op = "inflate" /\ log[2].kind = "ok" /\ log[2].stream = 2
    /\ log[3].op = "close" /\ log[4].op = "close"
    /\ log[5].op = "inflate" /\ log[5].kind = "throw"
    /\ closes = 1

\* C10: an inflate of a stream that the end of the file cuts short of its
\* expected output ends in a failure: it neither returns a buffer nor loops
\* without end.
C10_TruncatedInflateFails ==
    mode = "inflater" =>
        \A i \in 1..Len(log) :
            (log[i].op = "inflate" /\ log[i].wasOpen /\ Truncated(log[i].stream))
            => log[i].kind = "throw"

(***************************************************************************)
(* SpecScan: getCommitFromPackFile over a pack directory                   *)
(*                                                                         *)
(* A directory entry is named by its kind:                                 *)
(*   "subdir"      a directory                                             *)
(*   "pack"        a file whose name does not end in .idx                  *)
(*   "unreadable"  an index that openSync cannot open                      *)
(*   "badsig"      an index that does not start with the v2 signature      *)
(*   "other"       the index of a pack that does not hold the hash         *)
(*   "holder"      the index of a pack that holds the hash, a commit       *)
(*   "holderDelta" the same, the object being an offset delta of a commit  *)
(*   "nopack"      an index that holds the hash, its pack file missing     *)
(*   "badtype"     as "holder", the object's header of type code 0         *)
(*   "badbase"     as "holderDelta", the base's header of type code 5      *)
(* pc follows the call: opendir, loop, search, openPack, newInflater,      *)
(* read, returned.                                                         *)
(***************************************************************************)
\* the most entries of the directory
MaxDirents == 3

DirentKinds ==
    {"subdir", "pack", "unreadable", "badsig", "other", "holder", "holderDelta",
     "nopack", "badtype", "badbase"}

\* dirent.isDirectory()
IsDirectory(d) == d = "subdir"

\* dirent.name.endsWith(".idx")
EndsWithIdx(d) == d \notin {"subdir", "pack"}

\* the objects of the pack of an entry; the hash looked up is that of the
\* second object
PackObjs(d) ==
    IF d = "other" THEN <<[code |-> 1, data |-> <<111>>]>>
    ELSE IF d \in {"holderDelta", "badbase"}
    THEN <<[code |-> 1, data |-> <<99, 100, 101>>],
           [code |-> 6, base |-> 1,
            instrs |-> <<[op |-> "insert", lit |-> <<72>>],
                         [op |-> "copy", offset |-> 0, size |-> 3]>>]>>
    ELSE <<[code |-> 2, data |-> <<6, 7>>], [code |-> 1, data |-> <<99, 100, 101>>]>>

\* the bytes of the index file of an entry
IdxBytes(d) ==
    IF d = "badsig" THEN [PackIdxOf(PackObjs(d)) EXCEPT ![1] = 0]
    ELSE PackIdxOf(PackObjs(d))

\* pack with the type code of the object at offset at set to code
SetType(pack, at, code) ==
    [pack EXCEPT ![at + 1] = 128 * (@ \div 128) + 16 * code + (@ % 16)]

\* the bytes of the pack file of an entry
PackBytes(d) ==
    IF d = "badtype"
    THEN SetType(PackFileOf(PackObjs(d)), ObjOffsets(PackObjs(d), 2)[2], 0)
    ELSE IF d = "badbase"
    THEN SetType(PackFileOf(PackObjs(d)), ObjOffsets(PackObjs(d), 2)[1], 5)
    ELSE PackFileOf(PackObjs(d))

\* the hex digits of a buffer
ToHex(bytes) ==
    [i \in 1..(2 * Len(bytes)) |->
        IF i % 2 = 1 THEN bytes[(i + 1) \div 2] \div 16 ELSE bytes[i \div 2] % 16]

\* Buffer.from(oid, "hex"), of a string of hex digits
BufferFromHex(hex) ==
    [i \in 1..(Len(hex) \div 2) |-> 16 * hex[2 * i - 1] + hex[2 * i]]

\* the oids looked up: one the holders hold, one that no pack holds
ScanOids == {ToHex(ObjHash(2)), ToHex(ObjHash(3))}

\* fds with one more open, or one more close, of each resource in rs
Opened(f, rs) ==
    [r \in DOMAIN f |-> IF r \in rs THEN [f[r] EXCEPT !.opened = @ + 1] ELSE f[r]]

Closed(f, rs) ==
    [r \in DOMAIN f |-> IF r \in rs THEN [f[r] EXCEPT !.closed = @ + 1] ELSE f[r]]

InitScan ==
    /\ mode = "scan"
    /\ pc = "opendir"
    /\ sDir \in UNION {[1..n -> DirentKinds] : n \in 1..MaxDirents}
    /\ sPos = 0
    /\ sOid \in ScanOids
    /\ sOffset = 0
    /\ fds = [r \in {"dir", "index", "pack", "inflater"} |->
                [opened |-> 0, closed |-> 0]]
    /\ caught = ""
    /\ sOut = [kind |-> "none"]
    /\ NoIndex
    /\ NoDelta
    /\ NoPack
    /\ NoInflater
    /\ NoTimestamp
    /\ NoHead

\* the catch clause and the outer finally: null is returned for the error e,
\* and the directory is closed if it was opened; f is fds as the inner finally
\* clauses left it
Catch(e, f) ==
    /\ caught' = e
    /\ sOut' = [kind |-> "null"]
    /\ fds' = IF f["dir"].opened > 0 THEN Closed(f, {"dir"}) ELSE f
    /\ pc' = "returned"

\* dir = opendirSync(packDir), which fails when there is no such directory
OpenDir ==
    /\ mode \in {"scan", "timestamp"}
    /\ pc = "opendir"
    /\ \E exists \in BOOLEAN :
          IF exists
          THEN /\ fds' = Opened(fds, {"dir"})
               /\ pc' = "loop"
               /\ UNCHANGED <<caught, sOut>>
          ELSE Catch("ENOENT", fds)
    /\ UNCHANGED <<mode, sDir, sPos, sOid, sOffset, indexVars, deltaVars, packVars,
                   inflaterVars, tsVars, headVars>>

\* dirent = dir.readSync(): the end of the directory returns null; a
\* directory or another file is passed over; an index is opened
ReadDirent ==
    /\ mode \in {"scan", "timestamp"}
    /\ pc = "loop"
    /\ IF sPos = Len(sDir)
       THEN /\ sOut' = [kind |-> "null"]
            /\ fds' = Closed(fds, {"dir"})
            /\ pc' = "returned"
            /\ UNCHANGED <<sPos, caught>>
       ELSE IF IsDirectory(sDir[sPos + 1]) \/ ~EndsWithIdx(sDir[sPos + 1])
       THEN /\ sPos' = sPos + 1
            /\ UNCHANGED <<pc, fds, caught, sOut>>
       ELSE IF sDir[sPos + 1] = "unreadable"
       THEN /\ sPos' = sPos + 1
            /\ Catch("EACCES", fds)
       ELSE /\ sPos' = sPos + 1
            /\ fds' = Opened(fds, {"index"})
            /\ pc' = "search"
            /\ UNCHANGED <<caught, sOut>>
    /\ UNCHANGED <<mode, sDir, sOid, sOffset, indexVars, deltaVars, packVars,
                   inflaterVars, tsVars, headVars>>

\* offset = searchGitIndex(indexFd, oidBuffer): null goes on with the loop,
\* through the finally that closes the index
SearchIndex ==
    /\ mode \in {"scan", "timestamp"}
    /\ pc = "search"
    /\ \E r \in {searchGitIndex(IdxBytes(sDir[sPos]), BufferFromHex(sOid))} :
          IF r.kind = "throw"
          THEN Catch(r.err, Closed(fds, {"index"})) /\ UNCHANGED sOffset
          ELSE IF r.kind = "null"
          THEN /\ fds' = Closed(fds, {"index"})
               /\ pc' = "loop"
               /\ UNCHANGED <<sOffset, caught, sOut>>
          ELSE /\ sOffset' = r.value
               /\ pc' = "openPack"
               /\ UNCHANGED <<fds, caught, sOut>>
    /\ UNCHANGED <<mode, sDir, sPos, sOid, indexVars, deltaVars, packVars,
                   inflaterVars, tsVars, headVars>>

\* packFd = openSync(packFile, "r")
OpenPack ==
    /\ mode \in {"scan", "timestamp"}
    /\ pc = "openPack"
    /\ IF sDir[sPos] = "nopack"
       THEN Catch("ENOENT", Closed(fds, {"index"}))
       ELSE /\ fds' = Opened(fds, {"pack"})
            /\ pc' = "newInflater"
            /\ UNCHANGED <<caught, sOut>>
    /\ UNCHANGED <<mode, sDir, sPos, sOid, sOffset, indexVars, deltaVars, packVars,
                   inflaterVars, tsVars, headVars>>

\* inflater = new Inflater(), which fails when the native stream cannot be
\* set up: the statement is outside the try whose finally closes the pack
NewInflater ==
    /\ mode \in {"scan", "timestamp"}
    /\ pc = "newInflater"
    /\ \E made \in BOOLEAN :
          IF made
          THEN /\ fds' = Opened(fds, {"inflater"})
               /\ pc' = "read"
               /\ UNCHANGED <<caught, sOut>>
          ELSE Catch("Zlib", Closed(fds, {"index"}))
    /\ UNCHANGED <<mode, sDir, sPos, sOid, sOffset, indexVars, deltaVars, packVars,
                   inflaterVars, tsVars, headVars>>

\* return readFromPack(packFd, indexFd, offset, inflater).data, through the
\* finally clauses that close the inflater, the pack, the index and the
\* directory
ReadPack ==
    /\ mode \in {"scan", "timestamp"}
    /\ pc = "read"
    /\ \E pack \in {PackBytes(sDir[sPos])}, idx \in {IdxBytes(sDir[sPos])} :
          \E r \in {readFromPack(pack, idx, sOffset, TRUE, ZInit, <<>>)} :
              IF r.kind = "ok"
              THEN /\ sOut' = [kind |-> "data", data |-> r.data]
                   /\ fds' = Closed(fds, {"inflater", "pack", "index", "dir"})
                   /\ pc' = "returned"
                   /\ UNCHANGED caught
              ELSE Catch(IF r.kind = "throw" THEN r.err ELSE r.kind,
                         Closed(fds, {"inflater", "pack", "index"}))
    /\ UNCHANGED <<mode, sDir, sPos, sOid, sOffset, indexVars, deltaVars, packVars,
                   inflaterVars, tsVars, headVars>>

NextScan == OpenDir \/ ReadDirent \/ SearchIndex \/ OpenPack \/ NewInflater \/ ReadPack

SpecScan == InitScan /\ [][NextScan]_vars

\* C6: an index that cannot be opened or lacks the v2 signature is passed
\* over: with a directory whose only faulty entries are such indexes and a
\* pack that holds the hash, the object of that pack is returned, wherever in
\* the directory the entries come.
C6_BadIndexSkipped ==
    (/\ mode = "scan" /\ pc = "returned"
     /\ sOid = ToHex(ObjHash(2))
     /\ \A i \in 1..Len(sDir) :
           sDir[i] \in {"subdir", "pack", "unreadable", "badsig", "other", "holder"}
     /\ \E i \in 1..Len(sDir) : sDir[i] = "holder"
     /\ fds["dir"].opened = 1
     /\ caught # "Zlib")
    => sOut = [kind |-> "data", data |-> <<99, 100, 101>>]

\* C7: when the object's header, or that of a base of its chain, has an
\* unknown type code, the lookup ends in an error that its caller sees, which
\* is not the null of a hash that no index holds.
C7_ReadFailureSurfaces ==
    (mode = "scan" /\ pc = "returned" /\ caught = "Unsupported type")
    => sOut.kind = "throw"

\* C8: when the call has returned, the directory, every index file, the pack
\* file and the Inflater have each been closed as often as opened.
C8_AllClosedOnReturn ==
    (mode = "scan" /\ pc = "returned")
    => \A r \in DOMAIN fds : fds[r].closed = fds[r].opened

(***************************************************************************)
(* SpecTimestamp: getCommitTimestamp(oid, gitDir) with an oid given        *)
(*                                                                         *)
(* Text is a sequence of character codes.  pc follows the call: getCommit  *)
(* (the loose object), gotCommit when that gave a buffer, else the steps   *)
(* of getCommitFromPackFile up to returned, then done.                     *)
(***************************************************************************)
\* the most entries of the pack directory of a getCommitTimestamp call
MaxPackFiles == 2

\* zlib.inflateSync(bytes): the writes go on until the stream is done; a
\* stream that ends early is an error
RECURSIVE InflateSyncLoop(_, _, _, _)
InflateSyncLoop(z, bytes, inOffset, out) ==
    TheOne({IF w.z.zmode = "DONE" THEN [kind |-> "ok", data |-> out \o w.out]
            ELSE IF w.z = z /\ w.availInAfter = Len(bytes) - inOffset /\ w.out = <<>>
            THEN [kind |-> "throw", err |-> "unexpected end of file"]
            ELSE InflateSyncLoop(w.z, bytes, Len(bytes) - w.availInAfter, out \o w.out) :
            w \in {ZlibWriteSync(z, bytes, inOffset, Len(bytes) - inOffset,
                                 Len(bytes) + 1)}})

InflateSync(bytes) == InflateSyncLoop(ZInit, bytes, 0, <<>>)

\* getCommitFromLoose(oid, gitDir): the file read and inflated, null when
\* either fails
getCommitFromLoose(file) ==
    IF ~file.exists THEN [kind |-> "null"]
    ELSE TheOne({IF r.kind = "ok" THEN [kind |-> "data", data |-> r.data]
                 ELSE [kind |-> "null"] :
                 r \in {InflateSync(file.bytes)}})

\* buf.indexOf(b): the first place of the byte, from 0, or -1
BufferIndexOf(buf, b) ==
    IF \E i \in 1..Len(buf) : buf[i] = b
    THEN (CHOOSE i \in 1..Len(buf) : buf[i] = b /\ \A j \in 1..(i - 1) : buf[j] # b) - 1
    ELSE -1

\* buf.toString("utf8") of single-byte text: a byte that is no ASCII
\* character becomes U+FFFD
Utf8ToString(buf) == [i \in 1..Len(buf) |-> IF buf[i] < 128 THEN buf[i] ELSE 65533]

\* the lines of a text, which the m flag makes ^ and $ match around
RECURSIVE TextLines(_)
TextLines(text) ==
    IF \E i \in 1..Len(text) : text[i] \in {10, 13}
    THEN TheOne({<<SubSeq(text, 1, i - 1)>> \o TextLines(SubSeq(text, i + 1, Len(text))) :
                 i \in {CHOOSE i \in 1..Len(text) :
                           text[i] \in {10, 13} /\ \A j \in 1..(i - 1) : text[j] \notin {10, 13}}})
    ELSE <<text>>

\* the places <<i, j, k>> at which a line matches /^author .* <.*> (.*) .*$/:
\* " <" at i, "> " at j, " " at k, the group between j + 1 and k
AuthorPlaces(line) ==
    IF Len(line) < 7 \/ SubSeq(line, 1, Min(7, Len(line))) # <<97, 117, 116, 104, 111, 114, 32>>
    THEN {}
    ELSE UNION {UNION {{<<i, j, k>> : k \in {k \in (j + 2)..Len(line) : line[k] = 32}} :
                       j \in {j \in (i + 2)..(Len(line) - 1) :
                                 line[j] = 62 /\ line[j + 1] = 32}} :
                i \in {i \in 8..(Len(line) - 1) : line[i] = 32 /\ line[i + 1] = 60}}

\* the match the greedy quantifiers settle on: each .* as long as it can be,
\* the earlier ones first
GreedyPlace(ms) ==
    CHOOSE m \in ms : \A o \in ms :
        \/ m[1] > o[1]
        \/ (m[1] = o[1] /\ m[2] > o[2])
        \/ (m[1] = o[1] /\ m[2] = o[2] /\ m[3] >= o[3])

\* the digits at the start of text, as a number, from the value n
RECURSIVE DigitsValue(_, _)
DigitsValue(text, n) ==
    IF text # <<>> /\ text[1] \in 48..57
    THEN DigitsValue(Tail(text), 10 * n + (text[1] - 48))
    ELSE n

\* parseInt(text, 10): blanks are passed over, a sign is taken, then the
\* digits; NaN when there is none
RECURSIVE ParseInt(_)
ParseInt(text) ==
    IF text # <<>> /\ text[1] = 32 THEN ParseInt(Tail(text))
    ELSE LET signed == text # <<>> /\ text[1] \in {43, 45}
             digits == IF signed THEN Tail(text) ELSE text
         IN  IF digits # <<>> /\ digits[1] \in 48..57
             THEN [nan |-> FALSE,
                   n |-> (IF signed /\ text[1] = 45 THEN -1 ELSE 1) * DigitsValue(digits, 0)]
             ELSE [nan |-> TRUE, n |-> 0]

\* extractAuthorTimestamp(commit): group 1 of the first match; with no match
\* the index into null is a TypeError
extractAuthorTimestamp(commitText) ==
    TheOne({IF \A l \in 1..Len(places) : places[l] = {}
            THEN [kind |-> "throw", err |-> "TypeError"]
            ELSE TheOne({[kind |-> "ok",
                          text |-> SubSeq(TextLines(commitText)[l],
                                          GreedyPlace(places[l])[2] + 2,
                                          GreedyPlace(places[l])[3] - 1)] :
                         l \in {CHOOSE l \in 1..Len(places) :
                                   places[l] # {} /\ \A o \in 1..(l - 1) : places[o] = {}}}) :
            places \in {[l \in 1..Len(TextLines(commitText)) |->
                           AuthorPlaces(TextLines(commitText)[l])]}})

\* the end of getCommitTimestamp: the author time of the text after the
\* first null byte of the commit, in milliseconds
ParseCommitTime(data) ==
    TheOne({IF t.kind = "throw" THEN t
            ELSE [kind |-> "ok", ms |-> [ParseInt(t.text) EXCEPT !.n = @ * 1000]] :
            t \in {extractAuthorTimestamp(Utf8ToString(
                      SubSeq(data, BufferIndexOf(data, 0) + 2, Len(data))))}})

\* a mutant of TimestampOf: a missing commit is not refused, and the null is
\* used as a buffer
TimestampOfUnchecked(commitBuffer, hash) ==
    IF commitBuffer.kind # "data" THEN [kind |-> "throw", err |-> "TypeError"]
    ELSE ParseCommitTime(commitBuffer.data)

\* getCommitTimestamp from commitBuffer on: the not-found error of the hash,
\* or the commit's time
TimestampOf(commitBuffer, hash) ==
    IF commitBuffer.kind # "data"
    THEN [kind |-> "throw", err |-> "commit not found", hash |-> hash]
    ELSE ParseCommitTime(commitBuffer.data)

\* the text of the loose commits: one with an author line, one whose author
\* name holds " <" and "> ", one without author line, one whose time is no
\* number; each after the header "commit 1" and a null byte
CommitTexts ==
    { <<116, 10, 97, 117, 116, 104, 111, 114, 32, 65, 32, 60, 97, 62, 32, 49, 50, 32, 43,
        48, 10, 10, 109, 10>>,
      <<97, 117, 116, 104, 111, 114, 32, 65, 32, 60, 120, 62, 32, 66, 32, 60, 97, 62, 32,
        53, 54, 32, 43, 48>>,
      <<116, 10, 10, 109, 10>>,
      <<97, 117, 116, 104, 111, 114, 32, 65, 32, 60, 97, 62, 32, 120, 32, 43, 48, 10>> }

\* the loose object files: none, the zlib streams of the commits, and one of
\* these cut short
LooseFiles ==
    {[exists |-> FALSE, bytes |-> <<>>]}
    \union {[exists |-> TRUE,
             bytes |-> Deflate(<<99, 111, 109, 109, 105, 116, 32, 49, 0>> \o t, 50)] :
            t \in CommitTexts}
    \union {[exists |-> TRUE, bytes |-> <<120, 1, 1, 3, 0, 252, 255, 99, 100>>]}

InitTimestamp ==
    /\ mode = "timestamp"
    /\ pc = "getCommit"
    /\ sDir \in UNION {[1..n -> DirentKinds] : n \in 1..MaxPackFiles}
    /\ sPos = 0
    /\ sOid \in ScanOids
    /\ sOffset = 0
    /\ fds = [r \in {"dir", "index", "pack", "inflater"} |->
                [opened |-> 0, closed |-> 0]]
    /\ caught = ""
    /\ sOut = [kind |-> "none"]
    /\ loose \in LooseFiles
    /\ commit = [kind |-> "none"]
    /\ tsOut = [kind |-> "none"]
    /\ NoIndex
    /\ NoDelta
    /\ NoPack
    /\ NoInflater
    /\ NoHead

\* getCommit: getCommitFromLoose(oid, gitDir) || getCommitFromPackFile(...)
GetCommitFromLoose ==
    /\ mode = "timestamp"
    /\ pc = "getCommit"
    /\ commit' = getCommitFromLoose(loose)
    /\ pc' = IF commit'.kind = "data" THEN "gotCommit" ELSE "opendir"
    /\ UNCHANGED <<mode, loose, tsOut, indexVars, deltaVars, packVars, inflaterVars,
                   scanVars, headVars>>

\* the rest of getCommitTimestamp, on the buffer that getCommit gave
Timestamp ==
    /\ mode = "timestamp"
    /\ pc \in {"gotCommit", "returned"}
    /\ tsOut' = TimestampOf(IF pc = "gotCommit" THEN commit ELSE sOut, sOid)
    /\ pc' = "done"
    /\ UNCHANGED <<mode, loose, commit, indexVars, deltaVars, packVars, inflaterVars,
                   scanVars, headVars>>

NextTimestamp == GetCommitFromLoose \/ NextScan \/ Timestamp

SpecTimestamp == InitTimestamp /\ [][NextTimestamp]_vars

\* an index of the directory lists the hash
HoldsHash(d, hex) ==
    /\ EndsWithIdx(d)
    /\ \E k \in 1..Len(PackObjs(d)) : ObjHash(k) = BufferFromHex(hex)

\* C11: when the hash has no readable loose object and no index of the pack
\* directory lists it, getCommitFromPackFile returns null, whether or not the
\* directory exists or holds an index, and getCommitTimestamp throws
\* "commit <hash> not found".
C11_NotFound ==
    (/\ mode = "timestamp" /\ pc = "done"
     /\ commit.kind = "null"
     /\ \A i \in 1..Len(sDir) : ~HoldsHash(sDir[i], sOid))
    => /\ sOut.kind = "null"
       /\ tsOut = [kind |-> "throw", err |-> "commit not found", hash |-> sOid]

\* the loose file is cut short, the directory holds a file that is no index
\* and the index of another pack, and the call has thrown
C11_Witness ==
    /\ mode = "timestamp" /\ pc = "done"
    /\ loose.exists /\ commit.kind = "null"
    /\ sDir = <<"pack", "other">>
    /\ sOid = ToHex(ObjHash(3))
    /\ fds["index"].closed = 1
    /\ tsOut.kind = "throw" /\ tsOut.err = "commit not found"

(***************************************************************************)
(* SpecHead: getLastCommitHash(gitDir) and getCommitTimestamp(null, gitDir)*)
(*                                                                         *)
(* A file is [exists, text].  gitFs holds HEAD, the ref files by the name  *)
(* of the ref, and packed-refs.  pc starts at "head"; when HEAD resolves,  *)
(* the call goes on as a getCommitTimestamp with the hash does.            *)
(***************************************************************************)
\* the white space that String.trim removes
IsBlank(c) == c \in {9, 10, 11, 12, 13, 32}

RECURSIVE TrimStart(_)
TrimStart(text) ==
    IF text # <<>> /\ IsBlank(text[1]) THEN TrimStart(Tail(text)) ELSE text

RECURSIVE TrimEnd(_)
TrimEnd(text) ==
    IF text # <<>> /\ IsBlank(text[Len(text)])
    THEN TrimEnd(SubSeq(text, 1, Len(text) - 1))
    ELSE text

\* a mutant of Trim: the text is left as read
TrimNothing(text) == text

\* text.trim()
Trim(text) == TrimEnd(TrimStart(text))

\* text.startsWith(prefix)
StartsWith(text, prefix) ==
    Len(text) >= Len(prefix) /\ SubSeq(text, 1, Len(prefix)) = prefix

\* text.split(sep), sep one character
RECURSIVE Split(_, _)
Split(text, sep) ==
    IF \E i \in 1..Len(text) : text[i] = sep
    THEN TheOne({<<SubSeq(text, 1, i - 1)>> \o Split(SubSeq(text, i + 1, Len(text)), sep) :
                 i \in {CHOOSE i \in 1..Len(text) :
                           text[i] = sep /\ \A j \in 1..(i - 1) : text[j] # sep}})
    ELSE <<text>>

\* "ref: "
RefPrefix == <<114, 101, 102, 58, 32>>

\* the for loop over packed-refs: the first field of the first line that is
\* no comment and whose second field is ref; undefined when there is none
PackedOid(packedRefs, ref) ==
    TheOne({IF \A l \in 1..Len(lines) : ~(hit[l])
            THEN [kind |-> "undefined"]
            ELSE [kind |-> "ok",
                  oid |-> Split(lines[CHOOSE l \in 1..Len(lines) :
                                         hit[l] /\ \A o \in 1..(l - 1) : ~hit[o]], 32)[1]] :
            lines \in {Split(packedRefs, 10)},
            hit \in {[l \in 1..Len(Split(packedRefs, 10)) |->
                        /\ ~StartsWith(Split(packedRefs, 10)[l], <<35>>)
                        /\ Len(Split(Split(packedRefs, 10)[l], 32)) >= 2
                        /\ Split(Split(packedRefs, 10)[l], 32)[2] = ref]}})

\* the file of a ref: join(gitDir, ref)
RefFile(fs, ref) ==
    IF ref \in DOMAIN fs.refs THEN fs.refs[ref] ELSE [exists |-> FALSE, text |-> <<>>]

\* fromOidFromSymbolicRef(symbolicRef, gitDir).  seen holds the refs of the
\* calls that are waiting for this one: a ref among them recurses without
\* end, which the runtime ends with a RangeError (the call stack).
RECURSIVE fromOidFromSymbolicRef(_, _, _)

\* a mutant of FromPackedRefs: a missing packed-refs is read as an empty file
FromPackedRefsEmpty(fs, ref, seen) ==
    TheOne({IF entry.kind = "undefined" \/ entry.oid = <<>>
            THEN [kind |-> "throw", err |-> "commit at ref not found", ref |-> ref]
            ELSE fromOidFromSymbolicRef(fs, entry.oid, seen \union {ref}) :
            entry \in {PackedOid(IF fs.packed.exists THEN fs.packed.text ELSE <<>>, ref)}})

\* the catch clause: the ref looked up in packed-refs
FromPackedRefs(fs, ref, seen) ==
    IF ~fs.packed.exists THEN [kind |-> "throw", err |-> "ENOENT"]
    ELSE TheOne({IF entry.kind = "undefined" \/ entry.oid = <<>>
                 THEN [kind |-> "throw", err |-> "commit at ref not found", ref |-> ref]
                 ELSE fromOidFromSymbolicRef(fs, entry.oid, seen \union {ref}) :
                 entry \in {PackedOid(fs.packed.text, ref)}})

fromOidFromSymbolicRef(fs, symbolicRef, seen) ==
    IF ~StartsWith(symbolicRef, RefPrefix) THEN [kind |-> "ok", value |-> symbolicRef]
    ELSE TheOne({IF ref \in seen THEN [kind |-> "throw", err |-> "RangeError"]
                 ELSE IF RefFile(fs, ref).exists
                 THEN fromOidFromSymbolicRef(fs, Trim(RefFile(fs, ref).text),
                                             seen \union {ref})
                 ELSE FromPackedRefs(fs, ref, seen) :
                 ref \in {SubSeq(symbolicRef, 6, Len(symbolicRef))}})

\* getLastCommitHash(gitDir)
getLastCommitHash(fs) ==
    IF ~fs.head.exists THEN [kind |-> "throw", err |-> "ENOENT"]
    ELSE fromOidFromSymbolicRef(fs, Trim(fs.head.text), {})

\* the refs a repository of the model has
MaxRefs == 2

\* the name of the i-th ref: "r/a", "r/b", ...
RefName(i) == <<114, 47, 96 + i>>

RefNames == {RefName(i) : i \in 1..MaxRefs}

\* a string of hex digits as text, and Buffer.from(text, "hex") back to the
\* digits, which stops at the first character that is no hex digit
HexText(hex) == [i \in 1..Len(hex) |-> IF hex[i] < 10 THEN 48 + hex[i] ELSE 87 + hex[i]]

RECURSIVE HexDigits(_)
HexDigits(text) ==
    IF text = <<>> THEN <<>>
    ELSE IF text[1] \in 48..57 THEN <<text[1] - 48>> \o HexDigits(Tail(text))
    ELSE IF text[1] \in 97..102 THEN <<text[1] - 87>> \o HexDigits(Tail(text))
    ELSE IF text[1] \in 65..70 THEN <<text[1] - 55>> \o HexDigits(Tail(text))
    ELSE <<>>

\* what a HEAD or a ref file holds: nothing (no file), a hash, or a ref
NoTarget == [kind |-> "none"]

HashTarget(k) == [kind |-> "hash", hash |-> ObjHash(k)]

RefTarget(r) == [kind |-> "ref", ref |-> r]

\* the packed-refs files: none, one with only a comment that names a ref,
\* one with an entry after the comment, one with several entries of a ref
\* and the peeled line of a tag
PackedRefs ==
    { [exists |-> FALSE, lines |-> <<>>],
      [exists |-> TRUE, lines |-> <<[kind |-> "comment", ref |-> RefName(1)]>>],
      [exists |-> TRUE, lines |-> <<[kind |-> "comment", ref |-> RefName(1)],
                                    [kind |-> "entry", hash |-> ObjHash(3), ref |-> RefName(1)]>>],
      [exists |-> TRUE, lines |-> <<[kind |-> "entry", hash |-> ObjHash(2), ref |-> RefName(2)],
                                    [kind |-> "peeled", hash |-> ObjHash(3)],
                                    [kind |-> "entry", hash |-> ObjHash(3), ref |-> RefName(1)],
                                    [kind |-> "entry", hash |-> ObjHash(2), ref |-> RefName(1)]>>] }

\* the repositories: HEAD detached, on a ref, or missing; each ref with a
\* file of a hash or of another ref, or without one
Repos ==
    [head : {NoTarget, HashTarget(2)} \union {RefTarget(r) : r \in RefNames},
     refs : {f \in [RefNames -> {NoTarget, HashTarget(2), HashTarget(3)}
                                \union {RefTarget(r) : r \in RefNames}] :
                \A r \in RefNames : f[r] # RefTarget(r)},
     packed : PackedRefs]

\* the file of a target, as git writes it: the value and a line feed
TargetFile(t) ==
    IF t.kind = "none" THEN [exists |-> FALSE, text |-> <<>>]
    ELSE IF t.kind = "hash" THEN [exists |-> TRUE, text |-> HexText(ToHex(t.hash)) \o <<10>>]
    ELSE [exists |-> TRUE, text |-> RefPrefix \o t.ref \o <<10>>]

\* a line of packed-refs
PackedLine(l) ==
    IF l.kind = "comment" THEN <<35, 32>> \o l.ref \o <<10>>
    ELSE IF l.kind = "peeled" THEN <<94>> \o HexText(ToHex(l.hash)) \o <<10>>
    ELSE HexText(ToHex(l.hash)) \o <<32>> \o l.ref \o <<10>>

RECURSIVE PackedText(_)
PackedText(lines) ==
    IF lines = <<>> THEN <<>> ELSE PackedLine(Head(lines)) \o PackedText(Tail(lines))

\* the files of a repository
FilesOf(rp) ==
    [head |-> TargetFile(rp.head),
     refs |-> [r \in RefNames |-> TargetFile(rp.refs[r])],
     packed |-> [exists |-> rp.packed.exists, text |-> PackedText(rp.packed.lines)]]

\* the pack directories and the loose objects of the repositories
HeadDirs == {<<"holder">>, <<"other">>}

HeadLooseFiles ==
    {l \in LooseFiles :
        \/ ~l.exists
        \/ \E c \in {getCommitFromLoose(l)} :
              c.kind = "data" /\ ParseCommitTime(c.data).kind = "ok"}

InitHead ==
    /\ mode = "timestamp"
    /\ pc = "head"
    /\ repo \in Repos
    /\ gitFs = FilesOf(repo)
    /\ hOut = [kind |-> "none"]
    /\ sDir \in HeadDirs
    /\ sPos = 0
    /\ sOid = <<>>
    /\ sOffset = 0
    /\ fds = [r \in {"dir", "index", "pack", "inflater"} |->
                [opened |-> 0, closed |-> 0]]
    /\ caught = ""
    /\ sOut = [kind |-> "none"]
    /\ loose \in HeadLooseFiles
    /\ commit = [kind |-> "none"]
    /\ tsOut = [kind |-> "none"]
    /\ NoIndex
    /\ NoDelta
    /\ NoPack
    /\ NoInflater

\* getCommitTimestamp(null, gitDir), up to getCommit: the hash is that of
\* getLastCommitHash, whose error ends the call
GetLastCommitHash ==
    /\ mode = "timestamp"
    /\ pc = "head"
    /\ hOut' = getLastCommitHash(gitFs)
    /\ IF hOut'.kind = "throw"
       THEN /\ tsOut' = hOut'
            /\ pc' = "done"
            /\ UNCHANGED sOid
       ELSE /\ sOid' = HexDigits(hOut'.value)
            /\ pc' = "getCommit"
            /\ UNCHANGED tsOut
    /\ UNCHANGED <<mode, repo, gitFs, loose, commit, sDir, sPos, sOffset, fds, caught, sOut,
                   indexVars, deltaVars, packVars, inflaterVars>>

NextHead == GetLastCommitHash \/ NextTimestamp

SpecHead == InitHead /\ [][NextHead]_vars

\* the commit that a target of the repository stands for: a hash for
\* itself; a ref for what its file holds, else for the hash of its first
\* entry in packed-refs.  "none" when there is no such commit.
EntriesOf(rp, r) ==
    {l \in 1..Len(rp.packed.lines) :
        rp.packed.lines[l].kind = "entry" /\ rp.packed.lines[l].ref = r}

RECURSIVE CommitOf(_, _, _)
CommitOf(rp, t, seen) ==
    IF t.kind = "none" THEN [kind |-> "none"]
    ELSE IF t.kind = "hash" THEN [kind |-> "ok", value |-> HexText(ToHex(t.hash))]
    ELSE IF t.ref \in seen THEN [kind |-> "none"]
    ELSE IF rp.refs[t.ref].kind # "none"
    THEN CommitOf(rp, rp.refs[t.ref], seen \union {t.ref})
    ELSE IF EntriesOf(rp, t.ref) = {} THEN [kind |-> "none"]
    ELSE [kind |-> "ok",
          value |-> HexText(ToHex(rp.packed.lines[
                       CHOOSE l \in EntriesOf(rp, t.ref) :
                           \A o \in EntriesOf(rp, t.ref) : l <= o].hash))]

C12_PackedWitness ==
    /\ mode = "timestamp" /\ hOut.kind = "ok"
    /\ repo.head = RefTarget(RefName(1))
    /\ repo.refs[RefName(1)].kind = "none"
    /\ Len(repo.packed.lines) = 4
    /\ hOut.value = HexText(ToHex(ObjHash(3)))

NoCommits(rp) ==
    /\ rp.head.kind = "ref"
    /\ rp.refs[rp.head.ref].kind = "none"
    /\ EntriesOf(rp, rp.head.ref) = {}

\* C13: getLastCommitHash and getCommitTimestamp(null, gitDir) throw and
\* return no value when HEAD does not exist or the branch has no commits
\* (HEAD names a ref without ref file and without entry in packed-refs); the
\* error is ENOENT when the missing file is HEAD, or when the ref file and
\* packed-refs are both missing.
C13_NoHeadThrows ==
    (/\ mode = "timestamp" /\ hOut.kind # "none"
     /\ (repo.head.kind = "none" \/ NoCommits(repo)))
    => /\ hOut.kind = "throw"
       /\ tsOut = hOut
       /\ pc = "done"
       /\ (repo.head.kind = "none" \/ ~repo.packed.exists) => hOut.err = "ENOENT"

\* the ref has no file and packed-refs is missing too
C13_Witness ==
    /\ mode = "timestamp" /\ pc = "done"
    /\ NoCommits(repo)
    /\ ~repo.packed.exists
    /\ hOut = [kind |-> "throw", err |-> "ENOENT"]
    /\ tsOut = [kind |-> "throw", err |-> "ENOENT"]

\* the ref has no file and packed-refs only names it in a comment
C13_CommentWitness ==
    /\ mode = "timestamp" /\ pc = "done"
    /\ NoCommits(repo)
    /\ Len(repo.packed.lines) = 1
    /\ tsOut = [kind |-> "throw", err |-> "commit at ref not found", ref |-> repo.head.ref]

\* HEAD is missing
C13_NoHeadWitness ==
    /\ mode = "timestamp" /\ pc = "done"
    /\ repo.head.kind = "none"
    /\ tsOut = [kind |-> "throw", err |-> "ENOENT"]

(***************************************************************************)
(* SpecResolve: readFromPack on packs with any content, from any offset    *)
(*                                                                         *)
(* A pack is written as a chain of deltas, then bytes of it are            *)
(* overwritten: the fields that name a delta's base can hold any value.    *)
(* pRes is [offset, res], the start offset and what readFromPack gave.     *)
(***************************************************************************)
\* the most objects of a pack, and the most bytes overwritten
MaxChain == 3

MaxPatches == 2

\* the packs of n objects: a literal, then deltas of either kind, each on an
\* object before it
RECURSIVE ChainPacksOf(_)
ChainPacksOf(n) ==
    IF n = 1 THEN {<<[code |-> 1, data |-> <<99, 100, 101>>]>>}
    ELSE {Append(p, [code |-> c, base |-> b,
                     instrs |-> <<[op |-> "insert", lit |-> <<72>>],
                                  [op |-> "copy", offset |-> 0,
                                   size |-> Len(ObjData(p, b))]>>]) :
          p \in ChainPacksOf(n - 1), c \in {6, 7}, b \in 1..(n - 1)}

ChainPacks == UNION {ChainPacksOf(n) : n \in 1..MaxChain}

\* where the i-th object, a delta, names its base: the offset after its header
BaseField(objs, i) ==
    ObjOffsets(objs, Len(objs))[i]
    + Len(EncodeObjHeader(objs[i].code,
                          Len(EncodeDelta(Len(ObjData(objs, objs[i].base)),
                                          Len(ObjData(objs, i)), objs[i].instrs))))

\* the bytes overwritten: the first of a base field and, of a hash, the last
PatchPlaces(objs) ==
    UNION {{BaseField(objs, i)}
           \union (IF objs[i].code = 7 THEN {BaseField(objs, i) + 19} ELSE {}) :
           i \in {k \in 1..Len(objs) : objs[k].code \in {6, 7}}}

PatchValues == {0, 1, 2, 3, 255}

\* the offsets read from: the start of the file, of each object, and of the
\* base fields (the middle of an object)
StartOffsets(objs) ==
    {0} \union {ObjOffsets(objs, Len(objs))[i] : i \in 1..Len(objs)}
        \union PatchPlaces(objs)

InitResolve ==
    /\ mode = "resolve"
    /\ pc = "write"
    /\ pObjs \in ChainPacks
    /\ pPack = PackFileOf(pObjs)
    /\ pIdx = PackIdxOf(pObjs)
    /\ pRes = <<>>
    /\ NoIndex
    /\ NoDelta
    /\ NoInflater
    /\ NoScan
    /\ NoTimestamp
    /\ NoHead

\* a byte of the pack file is overwritten
Overwrite ==
    /\ mode = "resolve"
    /\ pc = "write"
    /\ \E written \in {PackFileOf(pObjs)} :
          Cardinality({k \in 1..Len(pPack) : pPack[k] # written[k]}) < MaxPatches
    /\ \E at \in PatchPlaces(pObjs), v \in PatchValues :
          pPack' = [pPack EXCEPT ![at + 1] = v]
    /\ UNCHANGED <<mode, pc, pObjs, pIdx, pRes, indexVars, deltaVars, inflaterVars,
                   scanVars, tsVars, headVars>>

\* readFromPack(packFd, idxFd, offset, inflater) with a new inflater
Resolve ==
    /\ mode = "resolve"
    /\ pc = "write"
    /\ \E offset \in StartOffsets(pObjs) :
          pRes' = [offset |-> offset,
                   res |-> readFromPack(pPack, pIdx, offset, TRUE, ZInit, <<>>)]
    /\ pc' = "done"
    /\ UNCHANGED <<mode, pObjs, pPack, pIdx, indexVars, deltaVars, inflaterVars,
                   scanVars, tsVars, headVars>>

NextResolve == Overwrite \/ Resolve

SpecResolve == InitResolve /\ [][NextResolve]_vars

\* the objects from the i-th to its literal
RECURSIVE ChainLength(_, _)
ChainLength(objs, i) ==
    IF objs[i].code \in {6, 7} THEN 1 + ChainLength(objs, objs[i].base) ELSE 1

\* the resolution came back to an offset it was reading at
Revisited == pRes.res.kind = "throw" /\ pRes.res.err = "RangeError"

\* what the code does: from the offset of an object of a pack as it was
\* written, the depth of the resolution is the length of the object's chain
WrittenPackDepth ==
    (mode = "resolve" /\ pc = "done" /\ pPack = PackFileOf(pObjs)) =>
        \A i \in 1..Len(pObjs) :
            pRes.offset = ObjOffsets(pObjs, Len(pObjs))[i]
            => pRes.res.kind = "ok" /\ pRes.res.depth = ChainLength(pObjs, i)

\* C14: for every pack content and every start offset, the base resolution
\* of readFromPack terminates: no object is visited twice within one
\* resolution, and from an object's offset the depth of the recursion is the
\* length of the delta chain to its literal.
C14_ResolutionTerminates ==
    (mode = "resolve" /\ pc = "done") =>
        /\ ~Revisited
        /\ pPack = PackFileOf(pObjs) =>
              \A i \in 1..Len(pObjs) :
                  pRes.offset = ObjOffsets(pObjs, Len(pObjs))[i]
                  => pRes.res.kind = "ok" /\ pRes.res.depth = ChainLength(pObjs, i)

====
